---- MODULE Spec2Model ----
(***************************************************************************)
(* Model of server.js: an express server whose GET /next-review draws a    *)
(* random review out of reviews.json (held in a GitHub repository), writes *)
(* the shortened list back guarded by the blob sha, and whose GET /status  *)
(* reports how many reviews are left.                                      *)
(*                                                                         *)
(* The file text is modelled as the sequence of its JSON tokens (white     *)
(* space carries no meaning for JSON.parse), JSON.parse as a recursive     *)
(* descent parser over those tokens and JSON.stringify as the printer of   *)
(* the same tokens.  The base64 transport encoding of the contents API is  *)
(* not modelled: the remote holds the decoded text.                        *)
(***************************************************************************)
EXTENDS Integers, Sequences, FiniteSets, Bags, TLC

(***************************************************************************)
(* Bounds of the model.                                                    *)
(***************************************************************************)
MaxReqs == 4        \* number of HTTP requests served in one behaviour
MaxOverlaps == 2    \* number of requests that arrive while another is in flight
MaxFailures == 1    \* number of remote calls that fail for another reason than the sha
RandomSteps == 4    \* Math.random() ranges over k / RandomSteps, k < RandomSteps

(***************************************************************************)
(* JavaScript values, as JSON.parse produces them.                         *)
(***************************************************************************)
Undefined == [t |-> "undefined"]
Null == [t |-> "null"]
Bool(b) == [t |-> "boolean", b |-> b]
Num(n) == [t |-> "number", n |-> n]
Str(s) == [t |-> "string", s |-> s]
Arr(items) == [t |-> "array", items |-> items]
Obj(members) == [t |-> "object", members |-> members]
Member(key, val) == [key |-> key, val |-> val]

(***************************************************************************)
(* JSON tokens of the file text.                                           *)
(***************************************************************************)
P(c) == [k |-> "punct", c |-> c]
S(s) == [k |-> "string", s |-> s]
N(n) == [k |-> "number", n |-> n]
L(w) == [k |-> "literal", w |-> w]

IsP(tok, c) == tok.k = "punct" /\ tok.c = c

ParseFail == [ok |-> FALSE, val |-> Undefined, next |-> 0]
ParseOk(val, next) == [ok |-> TRUE, val |-> val, next |-> next]

RECURSIVE ParseValue(_, _)
RECURSIVE ParseElements(_, _, _)
RECURSIVE ParseMembers(_, _, _)
RECURSIVE AfterElement(_, _, _)
RECURSIVE AfterMember(_, _, _, _)

\* what follows a parsed element e of an array
AfterElement(toks, acc, e) ==
  IF ~e.ok \/ e.next > Len(toks) THEN ParseFail
  ELSE IF IsP(toks[e.next], ",") THEN ParseElements(toks, e.next + 1, Append(acc, e.val))
  ELSE IF IsP(toks[e.next], "]") THEN ParseOk(Arr(Append(acc, e.val)), e.next + 1)
  ELSE ParseFail

\* elements of an array, toks[i] being the first token of the next element
ParseElements(toks, i, acc) ==
  CHOOSE parsed \in {AfterElement(toks, a, e) : a \in {acc}, e \in {ParseValue(toks, i)}} : TRUE

\* what follows the value e of the member of an object whose key is key
AfterMember(toks, acc, key, e) ==
  IF ~e.ok \/ e.next > Len(toks) THEN ParseFail
  ELSE IF IsP(toks[e.next], ",")
         THEN ParseMembers(toks, e.next + 1, Append(acc, Member(key, e.val)))
  ELSE IF IsP(toks[e.next], "}")
         THEN ParseOk(Obj(Append(acc, Member(key, e.val))), e.next + 1)
  ELSE ParseFail

\* members of an object, toks[i] being the key of the next member
ParseMembers(toks, i, acc) ==
  IF i + 1 > Len(toks) \/ toks[i].k # "string" \/ ~IsP(toks[i + 1], ":") THEN ParseFail
  ELSE CHOOSE parsed \in {AfterMember(toks, a, toks[i].s, e) :
                            a \in {acc}, e \in {ParseValue(toks, i + 2)}} : TRUE

ParseValue(toks, i) ==
  IF i > Len(toks) THEN ParseFail
  ELSE LET tok == toks[i] IN
    CASE tok.k = "string" -> ParseOk(Str(tok.s), i + 1)
      [] tok.k = "number" -> ParseOk(Num(tok.n), i + 1)
      [] tok.k = "literal" ->
           (CASE tok.w = "null" -> ParseOk(Null, i + 1)
              [] tok.w = "true" -> ParseOk(Bool(TRUE), i + 1)
              [] tok.w = "false" -> ParseOk(Bool(FALSE), i + 1)
              [] OTHER -> ParseFail)
      [] IsP(tok, "[") ->
           IF i + 1 <= Len(toks) /\ IsP(toks[i + 1], "]")
             THEN ParseOk(Arr(<<>>), i + 2)
             ELSE ParseElements(toks, i + 1, <<>>)
      [] IsP(tok, "{") ->
           IF i + 1 <= Len(toks) /\ IsP(toks[i + 1], "}")
             THEN ParseOk(Obj(<<>>), i + 2)
             ELSE ParseMembers(toks, i + 1, <<>>)
      [] OTHER -> ParseFail

\* JSON.parse(content): ok = FALSE stands for the SyntaxError it throws
JSONparse(content) ==
  LET r == ParseValue(content, 1) IN
  IF r.ok /\ r.next = Len(content) + 1
    THEN [ok |-> TRUE, val |-> r.val]
    ELSE [ok |-> FALSE, val |-> Undefined]

RECURSIVE JSONstringify(_)
RECURSIVE StringifyItems(_, _)
RECURSIVE StringifyMembers(_, _)

StringifyItems(items, i) ==
  IF i > Len(items) THEN <<>>
  ELSE (IF i > 1 THEN <<P(",")>> ELSE <<>>)
       \o JSONstringify(items[i]) \o StringifyItems(items, i + 1)

StringifyMembers(members, i) ==
  IF i > Len(members) THEN <<>>
  ELSE (IF i > 1 THEN <<P(",")>> ELSE <<>>)
       \o <<S(members[i].key), P(":")>> \o JSONstringify(members[i].val)
       \o StringifyMembers(members, i + 1)

\* JSON.stringify(value, null, 2); the indentation is white space only
JSONstringify(v) ==
  CASE v.t = "null" -> <<L("null")>>
    [] v.t = "boolean" -> <<L(IF v.b THEN "true" ELSE "false")>>
    [] v.t = "number" -> <<N(v.n)>>
    [] v.t = "string" -> <<S(v.s)>>
    [] v.t = "array" -> <<P("[")>> \o StringifyItems(v.items, 1) \o <<P("]")>>
    [] v.t = "object" -> <<P("{")>> \o StringifyMembers(v.members, 1) \o <<P("}")>>

(***************************************************************************)
(* The JavaScript operators the handlers apply to the parsed document.     *)
(***************************************************************************)
\* obj[name] for a value that is neither null nor undefined
RECURSIVE LookupMember(_, _, _)
LookupMember(members, name, i) ==
  IF i = 0 THEN Undefined
  ELSE IF members[i].key = name THEN members[i].val
  ELSE LookupMember(members, name, i - 1)

\* v.name throws a TypeError when v is null or undefined
PropertyThrows(v) == v.t \in {"null", "undefined"}

GetProperty(v, name) ==
  CASE v.t = "object" -> LookupMember(v.members, name, Len(v.members))
    [] v.t = "array" /\ name = "length" -> Num(Len(v.items))
    [] v.t = "string" /\ name = "length" -> Num(Len(v.s))
    [] OTHER -> Undefined

Truthy(v) ==
  CASE v.t \in {"undefined", "null"} -> FALSE
    [] v.t = "boolean" -> v.b
    [] v.t = "number" -> v.n # 0
    [] v.t = "string" -> v.s # ""
    [] OTHER -> TRUE

\* a || b
OrElse(a, b) == IF Truthy(a) THEN a ELSE b

IsArray(v) == v.t = "array"

\* a splice that removes the element after the one asked for
SpliceOffByOne(list, start, deleteCount) ==
  [j \in 1..(IF start + 1 < Len(list) THEN Len(list) - 1 ELSE Len(list)) |->
     IF j <= start + 1 THEN list[j] ELSE list[j + 1]]

\* Array.prototype.splice(start, deleteCount) on a list, 0-based start
Splice(list, start, deleteCount) ==
  LET len == Len(list)
      from == IF start < 0 THEN (IF len + start < 0 THEN 0 ELSE len + start)
              ELSE (IF start > len THEN len ELSE start)
      cnt == IF deleteCount < 0 THEN 0
             ELSE (IF deleteCount > len - from THEN len - from ELSE deleteCount)
  IN [j \in 1..(len - cnt) |-> IF j <= from THEN list[j] ELSE list[j + cnt]]

\* Math.round in the place of Math.floor
RandomIndexRounded(k, length) == (2 * k * length + RandomSteps) \div (2 * RandomSteps)

\* Math.floor(Math.random() * length), Math.random() being k / RandomSteps
RandomIndex(k, length) == (k * length) \div RandomSteps

\* the values Math.random() takes: 0 <= k / RandomSteps < 1
RandomDraws == 0..(RandomSteps - 1)

(***************************************************************************)
(* The remote store.  The sha of a file in the contents API is the git     *)
(* blob hash of its text, a function of the text alone; the hash is taken  *)
(* to be free of collisions.                                               *)
(***************************************************************************)
BlobSha(text) == [blob |-> text]
NoSha == [blob |-> <<L("none")>>]

\* the text of reviews.json that holds the given list
ReviewsFile(list) == JSONstringify(Obj(<<Member("reviews", Arr(list))>>))

\* lists of reviews the file starts with
InitLists ==
  { <<>>,
    <<Str("A")>>,
    <<Str("A"), Str("A")>>,
    <<Str("A"), Str("B")>>,
    <<Str("A"), Str("B"), Str("A")>>,
    <<Str("A"), Str("B"), Str("C")>> }

\* texts of reviews.json that do not hold a plain list of reviews
OddContents ==
  { <<P("{"), P("}")>>,                                          \* {}
    <<P("{"), S("reviews"), P(":"), S("abc"), P("}")>>,          \* {"reviews":"abc"}
    <<P("{"), S("reviews"), P(":"), S(""), P("}")>>,             \* {"reviews":""}
    <<P("{"), S("reviews"), P(":"), N(7), P("}")>>,              \* {"reviews":7}
    <<P("{"), S("reviews"), P(":"), L("null"), P("}")>>,         \* {"reviews":null}
    <<P("{"), S("reviews"), P(":"), P("{"), P("}"), P("}")>>,    \* {"reviews":{}}
    <<P("{"), S("reviews"), P(":"), P("{"), S("length"), P(":"), N(2), P("}"), P("}")>>,
    <<P("{"), S("other"), P(":"), N(1), P(","), S("reviews"), P(":"),
      P("["), S("B"), P(","), S("A"), P("]"), P("}")>>,          \* {"other":1,"reviews":["B","A"]}
    <<L("null")>>,                                               \* null
    <<N(7)>>,                                                    \* 7
    <<P("["), S("A"), P("]")>>,                                  \* ["A"]
    <<>>,                                                        \* empty file
    <<P("{"), S("reviews"), P(":"), P("["), S("A"), P(",")>>,    \* truncated
    <<P("{"), S("reviews"), P("["), P("]"), P("}")>> }           \* missing colon

InitContents ==
  {ReviewsFile(l) : l \in InitLists} \cup OddContents

(***************************************************************************)
(* State.                                                                  *)
(***************************************************************************)
VARIABLES
  versions,    \* the texts reviews.json has held on the branch, oldest first
  writers,     \* history: writers[i] is the request whose write made versions[i]
  req,         \* per request: the handler's position and its local variables
  overlaps,    \* history: number of requests that arrived while another was in flight
  failures     \* history: number of remote calls that failed for another reason than the sha

vars == <<versions, writers, req, overlaps, failures>>

Reqs == 1..MaxReqs

\* the current text of reviews.json on the branch
Remote == versions[Len(versions)]

NoResponse == [status |-> 0]
Json(status, body) == [status |-> status, body |-> body]

IdleRequest ==
  [ kind |-> "none", pc |-> "Idle",
    content |-> <<>>, sha |-> NoSha,
    reviews |-> <<>>, index |-> -1, selectedReview |-> Undefined, newJson |-> <<>>,
    put |-> "none", fetches |-> 0, puts |-> 0, res |-> NoResponse,
    \* history: the positions the handler went through, the responses it sent,
    \* the arguments of its calls of writeGitHubFile, the version it arrived at
    path |-> <<>>, sent |-> 0, writes |-> <<>>, arrivedAt |-> 0 ]

Terminal == {"EmptyTerminal", "Committed", "Conflicted", "FetchError", "ParseError",
             "InternalError", "WriteError", "StatusDone", "StatusError"}

InFlight(r) == req[r].pc \notin (Terminal \cup {"Idle"})

Init ==
  /\ \E c \in InitContents : versions = <<c>>
  /\ writers = <<0>>
  /\ req = [r \in Reqs |-> IdleRequest]
  /\ overlaps = 0
  /\ failures = 0

\* a request arrives; requests are numbered in their order of arrival
Arrive(r, kind) ==
  /\ req[r].pc = "Idle"
  /\ \A q \in Reqs : q < r => req[q].pc # "Idle"
  /\ (\E q \in Reqs : InFlight(q)) => overlaps < MaxOverlaps
  /\ req' = [req EXCEPT ![r].kind = kind, ![r].pc = "Fetching",
                        ![r].path = <<"Fetching">>,
                        ![r].arrivedAt = IF kind = "status" THEN Len(versions) ELSE 0]
  /\ overlaps' = IF \E q \in Reqs : InFlight(q) THEN overlaps + 1 ELSE overlaps
  /\ UNCHANGED <<versions, writers, failures>>

StartNextReview(r) == Arrive(r, "next-review")

StartStatus(r) == Arrive(r, "status")

\* octokit.repos.getContent answers with the current text and its sha
ReadGitHubFile == [content |-> Remote, sha |-> BlobSha(Remote)]

\* a parse that sends the empty list on to the selection
NextReviewParseNoShortCircuit(rq, file) ==
  LET parsed == JSONparse(file.content)
      json == parsed.val
      fetched == [rq EXCEPT !.content = file.content, !.sha = file.sha,
                            !.fetches = @ + 1]
  IN IF ~parsed.ok
       THEN [fetched EXCEPT !.pc = "ParseError",
               !.path = @ \o <<"Parsing", "ParseError">>, !.sent = @ + 1,
               !.res = Json(500, [error |-> "Invalid JSON format in reviews.json"])]
     ELSE IF PropertyThrows(json)
       THEN [fetched EXCEPT !.pc = "InternalError",
               !.path = @ \o <<"Parsing", "InternalError">>, !.sent = @ + 1,
               !.res = Json(500, [error |-> "Internal server error"])]
     ELSE LET reviews == OrElse(GetProperty(json, "reviews"), Arr(<<>>)) IN
          IF ~IsArray(reviews)
            THEN [fetched EXCEPT !.pc = "EmptyTerminal",
                    !.path = @ \o <<"Parsing", "EmptyTerminal">>, !.sent = @ + 1,
                    !.res = Json(200, [done |-> TRUE,
                                       message |-> "No reviews left in file.",
                                       review |-> Null])]
            ELSE [fetched EXCEPT !.pc = "Selecting", !.reviews = reviews.items,
                    !.path = @ \o <<"Parsing", "Selecting">>]

\* lines 69-84 of GET /next-review: the request after the parse
NextReviewParse(rq, file) ==
  LET parsed == JSONparse(file.content)
      json == parsed.val
      fetched == [rq EXCEPT !.content = file.content, !.sha = file.sha,
                            !.fetches = @ + 1]
  IN IF ~parsed.ok
       THEN [fetched EXCEPT !.pc = "ParseError",
               !.path = @ \o <<"Parsing", "ParseError">>, !.sent = @ + 1,
               !.res = Json(500, [error |-> "Invalid JSON format in reviews.json"])]
     ELSE IF PropertyThrows(json)
       THEN [fetched EXCEPT !.pc = "InternalError",
               !.path = @ \o <<"Parsing", "InternalError">>, !.sent = @ + 1,
               !.res = Json(500, [error |-> "Internal server error"])]
     ELSE LET reviews == OrElse(GetProperty(json, "reviews"), Arr(<<>>)) IN
          IF ~IsArray(reviews) \/ Len(reviews.items) = 0
            THEN [fetched EXCEPT !.pc = "EmptyTerminal",
                    !.path = @ \o <<"Parsing", "EmptyTerminal">>, !.sent = @ + 1,
                    !.res = Json(200, [done |-> TRUE,
                                       message |-> "No reviews left in file.",
                                       review |-> Null])]
            ELSE [fetched EXCEPT !.pc = "Selecting", !.reviews = reviews.items,
                    !.path = @ \o <<"Parsing", "Selecting">>]

\* a selection that serializes the list before the splice
NextReviewSelectStringifyFirst(rq, k) ==
  LET index == RandomIndex(k, Len(rq.reviews))
  IN [rq EXCEPT !.index = index,
                !.selectedReview = rq.reviews[index + 1],
                !.reviews = Splice(rq.reviews, index, 1),
                !.newJson = ReviewsFile(rq.reviews),
                !.put = "pending",
                !.path = Append(@, "Writing"),
                !.pc = "Writing"]

\* lines 86-96 of GET /next-review, k / RandomSteps being the value of Math.random()
NextReviewSelect(rq, k) ==
  LET index == RandomIndex(k, Len(rq.reviews))
      selectedReview == IF index + 1 \in DOMAIN rq.reviews
                          THEN rq.reviews[index + 1] ELSE Undefined
      reviews == Splice(rq.reviews, index, 1)
  IN [rq EXCEPT !.index = index,
                !.selectedReview = selectedReview,
                !.reviews = reviews,
                !.newJson = ReviewsFile(reviews),
                !.put = "pending",
                !.path = Append(@, "Writing"),
                !.pc = "Writing"]

\* line 67: the read is answered and the handler runs on to line 96 or to a response
NextReviewFetch(r) ==
  /\ req[r].kind = "next-review"
  /\ req[r].pc = "Fetching"
  /\ \E k \in RandomDraws, parsed \in {NextReviewParse(req[r], ReadGitHubFile)} :
       req' = [req EXCEPT ![r] = IF parsed.pc = "Selecting"
                                   THEN NextReviewSelect(parsed, k) ELSE parsed]
  /\ UNCHANGED <<versions, writers, overlaps, failures>>

\* a status handler that writes the file back after reading it
StatusFetchRewrites(r) ==
  /\ req[r].kind = "status"
  /\ req[r].pc = "Fetching"
  /\ req' = [req EXCEPT ![r].content = Remote, ![r].fetches = @ + 1,
                        ![r].pc = "StatusDone",
                        ![r].path = @ \o <<"Parsing", "StatusDone">>, ![r].sent = @ + 1,
                        ![r].res = Json(200, [count |-> Num(0)])]
  /\ versions' = Append(versions, Remote)
  /\ writers' = Append(writers, r)
  /\ UNCHANGED <<overlaps, failures>>

\* lines 114-123 of GET /status: the read is answered and the handler responds
StatusFetch(r) ==
  /\ req[r].kind = "status"
  /\ req[r].pc = "Fetching"
  /\ \E file \in {ReadGitHubFile} : \E parsed \in {JSONparse(file.content)} :
     LET json == parsed.val
         fetched == [req[r] EXCEPT !.content = file.content, !.fetches = @ + 1,
                                   !.sent = @ + 1]
     IN IF ~parsed.ok \/ PropertyThrows(json)
          THEN req' = [req EXCEPT ![r] = [fetched EXCEPT !.pc = "StatusError",
                 !.path = @ \o <<"Parsing", "StatusError">>,
                 !.res = Json(500, [error |-> "Internal server error"])]]
          ELSE LET reviews == OrElse(GetProperty(json, "reviews"), Arr(<<>>)) IN
               req' = [req EXCEPT ![r] = [fetched EXCEPT !.pc = "StatusDone",
                 !.path = @ \o <<"Parsing", "StatusDone">>,
                 !.res = Json(200, [count |-> GetProperty(reviews, "length")])]]
  /\ UNCHANGED <<versions, writers, overlaps, failures>>

\* a rejected read that no catch turns into a response
FetchFailsUncaught(r) ==
  /\ req[r].pc = "Fetching"
  /\ failures < MaxFailures
  /\ failures' = failures + 1
  /\ req' = [req EXCEPT ![r].fetches = @ + 1,
                        ![r].pc = IF req[r].kind = "next-review" THEN "FetchError"
                                  ELSE "StatusError",
                        ![r].path = Append(@, IF req[r].kind = "next-review"
                                                THEN "FetchError" ELSE "StatusError")]
  /\ UNCHANGED <<versions, writers, overlaps>>

\* the read is rejected (not found, bad credentials, network): the catch answers 500
FetchFails(r) ==
  /\ req[r].pc = "Fetching"
  /\ failures < MaxFailures
  /\ failures' = failures + 1
  /\ req' = [req EXCEPT ![r].fetches = @ + 1,
                        ![r].pc = IF req[r].kind = "next-review" THEN "FetchError"
                                  ELSE "StatusError",
                        ![r].path = Append(@, IF req[r].kind = "next-review"
                                                THEN "FetchError" ELSE "StatusError"),
                        ![r].sent = @ + 1,
                        ![r].res = Json(500, [error |-> "Internal server error"])]
  /\ UNCHANGED <<versions, writers, overlaps>>

\* a store that replaces the file whatever sha comes with the request
WriteGitHubFileUnguarded(newContent, sha) ==
  [result |-> "ok", versions |-> Append(versions, newContent)]

\* octokit.repos.createOrUpdateFileContents: the store replaces the file only
\* when the sha sent with the request is the sha of the file it holds
WriteGitHubFile(newContent, sha) ==
  IF sha = BlobSha(Remote)
    THEN [result |-> "ok", versions |-> Append(versions, newContent)]
    ELSE [result |-> "conflict", versions |-> versions]

\* a write that waits while another request is writing
PutAwaitsOthers(r) ==
  /\ req[r].pc = "Writing"
  /\ req[r].put = "pending"
  /\ \A q \in Reqs \ {r} : req[q].pc # "Writing"
  /\ LET w == WriteGitHubFile(req[r].newJson, req[r].sha) IN
     /\ versions' = w.versions
     /\ writers' = IF w.result = "ok" THEN Append(writers, r) ELSE writers
     /\ req' = [req EXCEPT ![r].put = w.result, ![r].puts = @ + 1,
                           ![r].writes = Append(@, [content |-> req[r].newJson,
                                                    sha |-> req[r].sha])]
  /\ UNCHANGED <<overlaps, failures>>

\* a write that sends the sha the file has when the write is made
PutLateSha(r) ==
  /\ req[r].pc = "Writing"
  /\ req[r].put = "pending"
  /\ LET w == WriteGitHubFile(req[r].newJson, BlobSha(Remote)) IN
     /\ versions' = w.versions
     /\ writers' = IF w.result = "ok" THEN Append(writers, r) ELSE writers
     /\ req' = [req EXCEPT ![r].put = w.result, ![r].puts = @ + 1,
                           ![r].writes = Append(@, [content |-> req[r].newJson,
                                                    sha |-> BlobSha(Remote)])]
  /\ UNCHANGED <<overlaps, failures>>

\* line 96: the write reaches the store
Put(r) ==
  /\ req[r].pc = "Writing"
  /\ req[r].put = "pending"
  /\ LET w == WriteGitHubFile(req[r].newJson, req[r].sha) IN
     /\ versions' = w.versions
     /\ writers' = IF w.result = "ok" THEN Append(writers, r) ELSE writers
     /\ req' = [req EXCEPT ![r].put = w.result, ![r].puts = @ + 1,
                           ![r].writes = Append(@, [content |-> req[r].newJson,
                                                    sha |-> req[r].sha])]
  /\ UNCHANGED <<overlaps, failures>>

\* line 96: the write is rejected for another reason than the sha
PutFails(r) ==
  /\ req[r].pc = "Writing"
  /\ req[r].put = "pending"
  /\ failures < MaxFailures
  /\ failures' = failures + 1
  /\ req' = [req EXCEPT ![r].put = "error", ![r].puts = @ + 1,
                        ![r].writes = Append(@, [content |-> req[r].newJson,
                                                 sha |-> req[r].sha])]
  /\ UNCHANGED <<versions, writers, overlaps>>

\* a handler that fetches again when its write met a conflict
NextReviewRespondRetry(r) ==
  /\ req[r].pc = "Writing"
  /\ req[r].put \in {"ok", "conflict", "error"}
  /\ req' = [req EXCEPT
       ![r].pc = CASE req[r].put = "ok" -> "Committed"
                   [] req[r].put = "conflict" -> "Fetching"
                   [] OTHER -> "WriteError",
       ![r].path = Append(@, CASE req[r].put = "ok" -> "Committed"
                               [] req[r].put = "conflict" -> "Fetching"
                               [] OTHER -> "WriteError"),
       ![r].sent = IF req[r].put = "conflict" THEN @ ELSE @ + 1,
       ![r].res = CASE req[r].put = "ok" ->
                         Json(200, [done |-> FALSE,
                                    review |-> req[r].selectedReview,
                                    remaining |-> Len(req[r].reviews)])
                    [] req[r].put = "conflict" -> NoResponse
                    [] OTHER -> Json(500, [error |-> "Internal server error"])]
  /\ UNCHANGED <<versions, writers, overlaps, failures>>

\* lines 98-106: the write has returned or thrown
NextReviewRespond(r) ==
  /\ req[r].pc = "Writing"
  /\ req[r].put \in {"ok", "conflict", "error"}
  /\ req' = [req EXCEPT
       ![r].pc = CASE req[r].put = "ok" -> "Committed"
                   [] req[r].put = "conflict" -> "Conflicted"
                   [] OTHER -> "WriteError",
       ![r].path = Append(@, CASE req[r].put = "ok" -> "Committed"
                               [] req[r].put = "conflict" -> "Conflicted"
                               [] OTHER -> "WriteError"),
       ![r].sent = @ + 1,
       ![r].res = IF req[r].put = "ok"
                    THEN Json(200, [done |-> FALSE,
                                    review |-> req[r].selectedReview,
                                    remaining |-> Len(req[r].reviews)])
                    ELSE Json(500, [error |-> "Internal server error"])]
  /\ UNCHANGED <<versions, writers, overlaps, failures>>

Next ==
  \E r \in Reqs :
    \/ StartNextReview(r)
    \/ StartStatus(r)
    \/ NextReviewFetch(r)
    \/ StatusFetch(r)
    \/ FetchFails(r)
    \/ Put(r)
    \/ PutFails(r)
    \/ NextReviewRespond(r)

Spec == Init /\ [][Next]_vars

\* the steps of request r: answers of the store and the continuations they resume
RequestStep(r) ==
  \/ NextReviewFetch(r)
  \/ StatusFetch(r)
  \/ FetchFails(r)
  \/ Put(r)
  \/ PutFails(r)
  \/ NextReviewRespond(r)

\* the files the fair executions start from: a list two draws can race for,
\* the empty list, a document without members and a text that does not parse
FairContents ==
  { ReviewsFile(<<Str("A"), Str("B")>>),
    ReviewsFile(<<>>),
    <<L("null")>>,
    <<P("{"), S("reviews"), P(":"), P("["), S("A"), P(",")>> }

FairInit == Init /\ Remote \in FairContents

\* every remote call returns and every resumed handler runs
FairSpec == FairInit /\ [][Next]_vars /\ \A r \in Reqs : WF_vars(RequestStep(r))

(***************************************************************************)
(* Vocabulary of the properties.                                           *)
(***************************************************************************)
ReviewA == Str("A")
ReviewB == Str("B")
ReviewC == Str("C")

Draws == {r \in Reqs : req[r].kind = "next-review"}
Statuses == {r \in Reqs : req[r].kind = "status"}
Answered(r) == req[r].pc \in Terminal
Quiescent == \A r \in Reqs : ~InFlight(r)

\* the document holds a `reviews` member that is a list
HoldsList(doc) ==
  /\ doc.t = "object"
  /\ \E i \in DOMAIN doc.members :
       /\ doc.members[i].key = "reviews"
       /\ \A j \in DOMAIN doc.members : j > i => doc.members[j].key # "reviews"
       /\ doc.members[i].val.t = "array"

\* the list of reviews a text holds; the empty list when it holds none
ListOf(text) ==
  LET parsed == JSONparse(text) IN
  IF parsed.ok /\ HoldsList(parsed.val)
    THEN LookupMember(parsed.val.members, "reviews", Len(parsed.val.members)).items
    ELSE <<>>

IsListFile(text) == JSONparse(text).ok /\ HoldsList(JSONparse(text).val)

InitialList == ListOf(versions[1])
RemoteList == ListOf(Remote)

Count(list, x) == Cardinality({j \in DOMAIN list : list[j] = x})

\* the two lists hold the same elements the same number of times
SameBag(l1, l2) ==
  /\ Len(l1) = Len(l2)
  /\ \A i \in DOMAIN l1 : Count(l1, l1[i]) = Count(l2, l1[i])

IsDraw(res) == res.status = 200 /\ "done" \in DOMAIN res.body /\ res.body.done = FALSE
IsDone(res) == res.status = 200 /\ "done" \in DOMAIN res.body /\ res.body.done = TRUE

\* the reviews returned in done=false responses by the requests 1..n
RECURSIVE ReturnedUpTo(_)
ReturnedUpTo(n) ==
  IF n = 0 THEN <<>>
  ELSE IF IsDraw(req[n].res) THEN Append(ReturnedUpTo(n - 1), req[n].res.body.review)
  ELSE ReturnedUpTo(n - 1)

Returned == ReturnedUpTo(MaxReqs)

\* r is the k-th /next-review call
DrawNumber(r) == Cardinality({q \in Draws : q <= r})

\* the calls came one after another and no remote call failed
Sequential == overlaps = 0 /\ failures = 0

\* C1 (exhaustion): when the file starts with a list of N reviews and the
\* /next-review calls come one after another with no remote failure, the
\* k-th call answers done=false for k <= N and done=true for k > N; the
\* reviews returned are occurrences of the initial list, and once N calls
\* are answered they are exactly the initial list and the remote list is
\* empty.
Exhaustion ==
  (IsListFile(versions[1]) /\ Sequential) =>
    LET total == Len(InitialList)
        answered == {r \in Draws : Answered(r)}
    IN /\ \A r \in answered :
            /\ DrawNumber(r) <= total => IsDraw(req[r].res)
            /\ DrawNumber(r) > total => IsDone(req[r].res)
       /\ Len(Returned) = (IF Cardinality(answered) < total THEN Cardinality(answered) ELSE total)
       /\ \A i \in DOMAIN Returned : Count(Returned, Returned[i]) <= Count(InitialList, Returned[i])
       /\ Cardinality(answered) >= total => SameBag(Returned, InitialList) /\ RemoteList = <<>>

\* three reviews were drawn one after another and the fourth call found none
ExhaustionReached ==
  /\ Sequential
  /\ versions[1] = ReviewsFile(<<ReviewA, ReviewB, ReviewC>>)
  /\ \A r \in 1..4 : r \in Draws /\ Answered(r)
  /\ IsDone(req[4].res)
  /\ Len(Returned) = 3

\* the request attempted its write and the store decided it on the sha
WriteDecided(r) == req[r].puts = 1 /\ req[r].put \in {"ok", "conflict"}

\* C2 (conflict detection): of two /next-review requests that read the same
\* sha of a non-empty list and both had their write decided by the store, no
\* other request having written on that sha, exactly one write succeeded;
\* once answered, that request answers 200 done=false and the other 500.
ConflictDetection ==
  \A r1, r2 \in Draws :
    ( /\ r1 # r2
      /\ req[r1].sha = req[r2].sha
      /\ WriteDecided(r1) /\ WriteDecided(r2)
      /\ \A q \in Draws \ {r1, r2} : ~(req[q].sha = req[r1].sha /\ req[q].put = "ok") )
    => /\ (req[r1].put = "ok") # (req[r2].put = "ok")
       /\ \A r \in {r1, r2} :
            Answered(r) => IF req[r].put = "ok"
                             THEN req[r].pc = "Committed" /\ IsDraw(req[r].res)
                             ELSE req[r].pc = "Conflicted" /\ req[r].res.status = 500

\* two requests read the same sha; one committed and the other met the conflict
ConflictDetected ==
  \E r1, r2 \in Draws :
    /\ req[r1].sha = req[r2].sha
    /\ req[r1].pc = "Committed" /\ IsDraw(req[r1].res)
    /\ req[r2].pc = "Conflicted" /\ req[r2].res.status = 500

\* C3 (no loss, no double delivery): at most one write succeeds per sha, and
\* whenever no request is in flight the reviews returned in done=false
\* responses together with the remote list are the initial list, occurrence
\* for occurrence.
NoLossNoDoubleDelivery ==
  /\ \A r1, r2 \in Draws :
       (r1 # r2 /\ req[r1].put = "ok" /\ req[r2].put = "ok") => req[r1].sha # req[r2].sha
  /\ Quiescent => SameBag(Returned \o RemoteList, InitialList)

\* a race was lost and reviews were drawn before and after it
RaceSettled ==
  /\ Quiescent
  /\ \E r \in Draws : req[r].pc = "Conflicted"
  /\ Len(Returned) >= 2
  /\ overlaps > 0

Range(f) == {f[i] : i \in DOMAIN f}

\* the request has run the selection of lines 86-93
Selected(r) == req[r].pc \in {"Writing", "Committed", "Conflicted", "WriteError"}

\* the read of the request was answered
Fetched(r) == req[r].pc \notin {"Idle", "Fetching", "FetchError"} /\ req[r].fetches = 1

NoReviewsLeft ==
  Json(200, [done |-> TRUE, message |-> "No reviews left in file.", review |-> Null])

\* C4 (empty short-circuit): a /next-review request that fetched a file whose
\* list of reviews is empty never calls the write, makes no version of the
\* file, and answers 200 with done=true, review=null and the message
\* "No reviews left in file.".
EmptyShortCircuit ==
  \A r \in Draws :
    (Fetched(r) /\ IsListFile(req[r].content) /\ ListOf(req[r].content) = <<>>)
    => /\ req[r].puts = 0 /\ req[r].put = "none" /\ req[r].newJson = <<>>
       /\ r \notin Range(writers)
       /\ req[r].pc = "EmptyTerminal"
       /\ req[r].res = NoReviewsLeft

\* a list was drawn empty and the next request found it so
EmptyFound ==
  \E r \in Draws :
    /\ req[r].pc = "EmptyTerminal"
    /\ Len(versions) > 1
    /\ req[r].content = ReviewsFile(<<>>)
    /\ Remote = ReviewsFile(<<>>)

\* C5 (status purity): a /status request never calls the write, and no step
\* of a /status request, answered or failed, changes the file, its history
\* or any other request.
StatusPurity ==
  /\ [](\A r \in Statuses : req[r].puts = 0 /\ r \notin Range(writers))
  /\ [][\A r \in Reqs :
          (req'[r].kind = "status" /\ req'[r] # req[r])
          => /\ versions' = versions
             /\ writers' = writers
             /\ \A q \in Reqs \ {r} : req'[q] = req[q]]_vars

\* /status calls were answered and failed between the draws
StatusesServed ==
  /\ \E r \in Statuses : req[r].pc = "StatusDone" /\ req[r].content # versions[1]
  /\ \E r \in Statuses : req[r].pc = "StatusError"
  /\ Len(versions) > 1
  /\ Quiescent

\* C6 (residual correctness): a request that fetched a non-empty list has
\* selected; its index i satisfies 0 <= i < length, the review it returns is
\* the element at index i, and the fetched list is the residual list with
\* that review put back at index i; the text it writes holds the residual.
ResidualCorrectness ==
  \A r \in Draws :
    LET input == ListOf(req[r].content)
        i == req[r].index
        residual == req[r].reviews
    IN /\ (Fetched(r) /\ IsListFile(req[r].content) /\ input # <<>>) => Selected(r)
       /\ Selected(r) =>
            /\ input # <<>>
            /\ 0 <= i /\ i < Len(input)
            /\ req[r].selectedReview = input[i + 1]
            /\ Len(residual) = Len(input) - 1
            /\ input = SubSeq(residual, 1, i) \o <<req[r].selectedReview>>
                         \o SubSeq(residual, i + 1, Len(residual))
            /\ IsListFile(req[r].newJson) /\ ListOf(req[r].newJson) = residual

\* the last of three reviews, equal to the first, was selected
LastOfDuplicatesSelected ==
  \E r \in Draws :
    /\ Selected(r)
    /\ ListOf(req[r].content) = <<ReviewA, ReviewB, ReviewA>>
    /\ req[r].index = 2
    /\ req[r].reviews = <<ReviewA, ReviewB>>

\* C7 (conflict is surfaced, never retried): every request fetches at most
\* once and writes at most once; a request whose write met a conflict makes
\* no version of the file, keeps what it fetched, and answers 500 with an
\* error body that reports no review.
ConflictSurfaced ==
  /\ \A r \in Reqs : req[r].fetches <= 1 /\ req[r].puts <= 1
  /\ \A r \in Draws :
       req[r].put = "conflict"
       => /\ r \notin Range(writers)
          /\ req[r].sha # BlobSha(Remote)
          /\ req[r].pc \in {"Writing", "Conflicted"}
          /\ req[r].pc = "Writing" => req[r].res = NoResponse
          /\ req[r].pc = "Conflicted" =>
               req[r].res = Json(500, [error |-> "Internal server error"])

\* a request lost the race and the review it had selected is still in the file
LoserAnswered ==
  \E r \in Draws :
    /\ req[r].pc = "Conflicted"
    /\ req[r].res.status = 500
    /\ Count(RemoteList, req[r].selectedReview) > 0

\* C8 (parse asymmetry), as claimed: a /next-review request that fetched
\* valid JSON without a list of reviews answers 200 done=true and does not
\* write; it answers 500 from the parse only when the text is not valid JSON,
\* and then it does not write either.
ParseAsymmetry ==
  \A r \in Draws :
    Fetched(r) =>
      LET parsed == JSONparse(req[r].content) IN
      /\ (parsed.ok /\ ~HoldsList(parsed.val))
           => req[r].res = NoReviewsLeft /\ req[r].puts = 0
      /\ req[r].pc \in {"ParseError", "InternalError"} => ~parsed.ok
      /\ ~parsed.ok
           => /\ req[r].res.status = 500
              /\ req[r].puts = 0
              /\ r \notin Range(writers)

\* C9 (success result): a request that answers done=false had its write
\* accepted; its `remaining` is the length of its residual list, one less
\* than the length it fetched, and the length of the list in the version its
\* write made, which follows the version it fetched.  From ["A","B","C"],
\* calls coming one after another with no remote failure report remaining
\* 2, 1, 0 and the fourth answers done=true.
SuccessResult ==
  /\ \A r \in Draws :
       IsDraw(req[r].res) =>
         /\ req[r].put = "ok" /\ req[r].pc = "Committed"
         /\ req[r].res.body.remaining = Len(req[r].reviews)
         /\ req[r].res.body.remaining = Len(ListOf(req[r].content)) - 1
         /\ Cardinality({i \in DOMAIN writers : writers[i] = r}) = 1
         /\ \A i \in DOMAIN writers :
              writers[i] = r =>
                /\ IsListFile(versions[i])
                /\ Len(ListOf(versions[i])) = req[r].res.body.remaining
                /\ versions[i - 1] = req[r].content
  /\ (versions[1] = ReviewsFile(<<ReviewA, ReviewB, ReviewC>>) /\ Sequential) =>
       \A r \in Draws :
         Answered(r) =>
           /\ DrawNumber(r) <= 3 =>
                IsDraw(req[r].res) /\ req[r].res.body.remaining = 3 - DrawNumber(r)
           /\ DrawNumber(r) = 4 => req[r].res = NoReviewsLeft

\* the scenario was played: remaining 2, 1, 0 and then done=true
ScenarioPlayed ==
  /\ versions[1] = ReviewsFile(<<ReviewA, ReviewB, ReviewC>>)
  /\ Sequential
  /\ Draws = 1..4
  /\ \A r \in 1..3 : IsDraw(req[r].res) /\ req[r].res.body.remaining = 3 - r
  /\ req[4].res = NoReviewsLeft
  /\ Len(versions) = 4

\* C10 (status agrees with draw), as claimed: a /status request that fetched
\* valid JSON from which /next-review takes a list (any document but null)
\* answers 200 with count the length of that list; count is 0 exactly when
\* that list is empty, which is when /next-review answers done=true.
StatusAgreesWithDraw ==
  \A r \in Statuses :
    (Answered(r) /\ JSONparse(req[r].content).ok /\ JSONparse(req[r].content).val # Null) =>
      /\ req[r].res.status = 200
      /\ req[r].res.body.count = Num(Len(ListOf(req[r].content)))
      /\ (req[r].res.body.count = Num(0)) <=> (ListOf(req[r].content) = <<>>)

FailureStates == {"FetchError", "ParseError", "InternalError", "WriteError",
                  "Conflicted", "StatusError"}

Failed(r) == req[r].pc \in FailureStates

\* the read of the request was rejected
FetchFailed(r) ==
  req[r].path \in {<<"Fetching", "FetchError">>, <<"Fetching", "StatusError">>}

\* the next request may arrive: it is the first that has not, and the bound
\* on overlapping arrivals leaves room for it
MayArrive(r) ==
  /\ req[r].pc = "Idle"
  /\ \A q \in Reqs : q < r => req[q].pc # "Idle"
  /\ (\E q \in Reqs : InFlight(q)) => overlaps < MaxOverlaps

\* C11 (failure containment): a request of either endpoint in which the
\* fetch, the parse or the write failed is answered once, with 500 and an
\* error body, and made no version of the file; a request whose fetch failed
\* never calls the write; every 500 comes from such a failure; and after any
\* failure the server still takes the next request of either endpoint.
FailureContainment ==
  /\ \A r \in Reqs :
       /\ Failed(r) =>
            /\ req[r].res.status = 500
            /\ DOMAIN req[r].res.body = {"error"}
            /\ req[r].sent = 1
            /\ r \notin Range(writers)
       /\ req[r].res.status = 500 => Failed(r)
       /\ req[r].put \in {"conflict", "error"} =>
            /\ r \notin Range(writers)
            /\ req[r].pc \in {"Writing", "Conflicted", "WriteError"}
       /\ FetchFailed(r) =>
            /\ req[r].puts = 0 /\ req[r].writes = <<>>
            /\ req[r].content = <<>> /\ req[r].newJson = <<>>
  /\ \A r \in Reqs :
       ((\E q \in Reqs : Failed(q)) /\ MayArrive(r))
       => ENABLED StartNextReview(r) /\ ENABLED StartStatus(r)

\* after a rejected read, a rejected write and a lost race, a draw succeeded
ServedAfterFailures ==
  \E q, r \in Draws :
    /\ q < r
    /\ req[q].pc \in {"FetchError", "WriteError"}
    /\ \E c \in Draws : c < r /\ req[c].pc = "Conflicted"
    /\ req[r].pc = "Committed"
    /\ req[r].content = versions[Len(versions) - 1]
    /\ Quiescent

DrawEdges ==
  { <<"Fetching", "Parsing">>, <<"Parsing", "EmptyTerminal">>,
    <<"Parsing", "Selecting">>, <<"Selecting", "Writing">>,
    <<"Writing", "Committed">>, <<"Writing", "Conflicted">>,
    <<"Fetching", "FetchError">>, <<"Parsing", "ParseError">>,
    <<"Parsing", "InternalError">>, <<"Writing", "WriteError">> }

DrawTerminals == {"EmptyTerminal", "Committed", "Conflicted", "FetchError",
                  "ParseError", "InternalError", "WriteError"}

IsPrefix(p, q) == Len(p) <= Len(q) /\ \A i \in DOMAIN p : p[i] = q[i]

\* C12 (draw state machine): the positions of a /next-review request start
\* with Fetching and follow only the edges Fetching -> Parsing ->
\* (EmptyTerminal | Selecting -> Writing -> (Committed | Conflicted)) or lead
\* from a failing step to an error terminal; the request has sent one
\* response exactly when it is in a terminal, none before; it calls the write
\* only after the fetch, the parse and the selection on a non-empty list; and
\* nothing of a request changes once it is in a terminal.
DrawStateMachine ==
  /\ [](\A r \in Draws :
          LET path == req[r].path IN
          /\ path # <<>> /\ path[1] = "Fetching"
          /\ \A i \in 1..(Len(path) - 1) :
               /\ <<path[i], path[i + 1]>> \in DrawEdges
               /\ path[i] \notin DrawTerminals
          /\ req[r].pc = path[Len(path)]
          /\ req[r].sent = (IF req[r].pc \in DrawTerminals THEN 1 ELSE 0)
          /\ (req[r].res # NoResponse) <=> (req[r].pc \in DrawTerminals)
          /\ req[r].put # "none" =>
               /\ IsPrefix(<<"Fetching", "Parsing", "Selecting", "Writing">>, path)
               /\ req[r].fetches = 1
               /\ IsListFile(req[r].content) /\ ListOf(req[r].content) # <<>>
          /\ req[r].puts >= 1 => req[r].put \in {"ok", "conflict", "error"})
  /\ [][\A r \in Reqs :
          (req[r].kind = "next-review" /\ req[r].pc \in DrawTerminals)
          => req'[r] = req[r]]_vars

\* requests ended in EmptyTerminal, in Committed, in Conflicted and in an error
AllTerminalsVisited ==
  /\ \E r \in Draws : req[r].path = <<"Fetching", "Parsing", "EmptyTerminal">>
  /\ \E r \in Draws :
       req[r].path = <<"Fetching", "Parsing", "Selecting", "Writing", "Committed">>
  /\ \E r \in Draws :
       req[r].path = <<"Fetching", "Parsing", "Selecting", "Writing", "Conflicted">>
  /\ \E r \in Draws : req[r].path = <<"Fetching", "Parsing", "Selecting", "Writing", "WriteError">>

\* the steps request r takes when no remote call fails
OwnStep(r) ==
  NextReviewFetch(r) \/ StatusFetch(r) \/ Put(r) \/ NextReviewRespond(r)

\* C13 (every request terminates): when every remote call returns and every
\* resumed handler runs, each /next-review and each /status request in flight
\* comes to a terminal with its one response sent; at every moment a request
\* in flight can take its next step whatever the other requests are doing.
EveryRequestTerminates ==
  /\ [](\A r \in Reqs :
          /\ InFlight(r) => ENABLED OwnStep(r)
          /\ Answered(r) => req[r].sent = 1 /\ req[r].res # NoResponse)
  /\ [][\A r \in Reqs : /\ (req[r].pc # "Idle" => req'[r].pc # "Idle")
                         /\ (Answered(r) => req'[r] = req[r])]_vars
  /\ <>[](\A r \in Reqs : req[r].pc # "Idle" => Answered(r) /\ req[r].sent = 1)

\* three requests were in flight together and all came to be answered
AllAnsweredAfterOverlap ==
  /\ overlaps = 2
  /\ \A r \in Reqs : Answered(r)
  /\ \E r \in Statuses : TRUE
  /\ \E r \in Draws : req[r].pc = "Conflicted"

\* the list without its element at the zero-based index
Without(list, index) ==
  SubSeq(list, 1, index) \o SubSeq(list, index + 2, Len(list))

\* C14 (write uses the request's own fetch): every write a /next-review
\* request made carried the sha its own single fetch returned, which is the
\* sha of the version of the file that fetch read, and its content is the
\* serialized list of that version without the selected element; a version
\* the request made follows the version it fetched.
WriteUsesOwnFetch ==
  \A r \in Reqs :
    /\ Len(req[r].writes) = req[r].puts
    /\ req[r].puts <= 1
    /\ req[r].puts = 1 => r \in Draws /\ req[r].fetches = 1
    /\ \A i \in DOMAIN req[r].writes :
         LET w == req[r].writes[i]
             input == ListOf(req[r].content)
         IN /\ req[r].content \in Range(versions)
            /\ w.sha = req[r].sha
            /\ w.sha = BlobSha(req[r].content)
            /\ req[r].index + 1 \in DOMAIN input
            /\ w.content = ReviewsFile(Without(input, req[r].index))
            /\ w.content = JSONstringify(Obj(<<Member("reviews", Arr(req[r].reviews))>>))
    /\ \A i \in DOMAIN versions :
         writers[i] = r =>
           /\ i > 1
           /\ req[r].puts = 1
           /\ versions[i] = req[r].writes[1].content
           /\ versions[i - 1] = req[r].content

\* a request sent the sha of a version that was no longer the current one,
\* and the file has moved on since by the writes of two other requests
StaleTokenSent ==
  \E r \in Draws :
    /\ req[r].put = "conflict"
    /\ Len(req[r].writes) = 1
    /\ req[r].writes[1].sha # BlobSha(Remote)
    /\ req[r].content # Remote
    /\ Len(versions) = 3
    /\ \E q \in Draws \ {r} : req[q].put = "ok" /\ Len(req[q].writes) = 1

\* sub is list with some of its elements left out, the order kept
RECURSIVE IsSubList(_, _)
IsSubList(sub, list) ==
  IF sub = <<>> THEN TRUE
  ELSE IF list = <<>> THEN FALSE
  ELSE IF Head(sub) = Head(list) THEN IsSubList(Tail(sub), Tail(list))
  ELSE IsSubList(sub, Tail(list))

\* C15 (remote list only shrinks by one): the list of every version of the
\* file after the first is the list of the version before it with exactly
\* one element removed; so the list of every version is an order-preserving
\* sub-list of the initial list and of every earlier version, lengths never
\* increase, and no element a committed draw removed comes back.
ShrinksByOne ==
  \A lists \in {[i \in DOMAIN versions |-> ListOf(versions[i])]} :
    /\ \A i \in 2..Len(versions) :
         /\ IsListFile(versions[i])
         /\ \E k \in DOMAIN lists[i - 1] : lists[i] = Without(lists[i - 1], k - 1)
         /\ Len(lists[i]) = Len(lists[i - 1]) - 1
    /\ \A i, j \in DOMAIN versions :
         i <= j =>
           /\ IsSubList(lists[j], lists[i])
           /\ Len(lists[j]) <= Len(lists[i])
           /\ \A x \in Range(lists[1]) : Count(lists[j], x) <= Count(lists[i], x)
    /\ IsSubList(RemoteList, InitialList)

\* after two committed draws a request sent a write made from the first
\* version, holding a review already removed, and the file kept the removals
StaleWriteRejected ==
  /\ Len(versions) = 3
  /\ InitialList = <<ReviewA, ReviewB, ReviewC>>
  /\ Len(RemoteList) = 1
  /\ Statuses # {}
  /\ \E r \in Draws :
       /\ req[r].put = "conflict"
       /\ req[r].content = versions[1]
       /\ Len(ListOf(req[r].newJson)) = 2
       /\ \E x \in Range(ListOf(req[r].newJson)) : x \notin Range(RemoteList)

\* w and l fetched the same version and selected different elements; the
\* store accepted the write of w and rejected the write of l with a conflict
Raced(w, l) ==
  /\ w \in Draws /\ l \in Draws /\ w # l
  /\ req[w].put = "ok" /\ req[l].put = "conflict"
  /\ req[w].sha = req[l].sha
  /\ req[w].index # req[l].index

\* the version of the file the write of w made
VersionBy(w) == CHOOSE i \in DOMAIN versions : writers[i] = w

\* the place the element selected by l has in the list w wrote
PlaceAfter(w, l) ==
  IF req[l].index < req[w].index THEN req[l].index + 1 ELSE req[l].index

\* C16 (loser's review stays drawable): after a race between two draws that
\* fetched the same version and selected different elements, the version the
\* winner made is the fetched list without the winner's element only, and it
\* still holds the loser's element at its place; a later draw that meets
\* this version with no other request in flight can select that element,
\* have its write accepted and return it.
LoserStaysDrawable ==
  \A w, l \in Reqs :
    Raced(w, l) =>
      LET after == ListOf(versions[VersionBy(w)])
          place == PlaceAfter(w, l)
          lost == req[l].selectedReview
      IN /\ after = Without(ListOf(req[l].content), req[w].index)
         /\ Len(after) = Len(ListOf(req[l].content)) - 1
         /\ place \in DOMAIN after
         /\ after[place] = lost
         /\ \A d \in Draws \ {w, l} :
              (/\ Remote = versions[VersionBy(w)]
               /\ \A q \in Reqs \ {d} : ~InFlight(q)) =>
                /\ req[d].pc = "Fetching" =>
                     ENABLED (/\ NextReviewFetch(d)
                              /\ req'[d].pc = "Writing"
                              /\ req'[d].selectedReview = lost)
                /\ (/\ req[d].pc = "Writing" /\ req[d].put = "pending"
                    /\ req[d].sha = BlobSha(versions[VersionBy(w)])) =>
                     ENABLED (Put(d) /\ req'[d].put = "ok")
         /\ \A d \in Draws \ {w, l} :
              (/\ req[d].sha = BlobSha(versions[VersionBy(w)])
               /\ req[d].index = place - 1
               /\ req[d].pc = "Committed") =>
                /\ IsDraw(req[d].res)
                /\ req[d].res.body.review = lost
                /\ Count(ListOf(versions[VersionBy(d)]), lost) = Count(after, lost) - 1

\* after a race for two different reviews a later draw, alone in flight,
\* returned the review the loser had selected
LoserReviewDrawnLater ==
  \E w, l, d \in Reqs :
    /\ Raced(w, l)
    /\ req[w].selectedReview # req[l].selectedReview
    /\ d \in Draws \ {w, l}
    /\ req[d].pc = "Committed"
    /\ req[d].content = versions[VersionBy(w)]
    /\ req[d].res.body.review = req[l].selectedReview
    /\ Answered(w) /\ Answered(l)
    /\ overlaps = 1

\* C17 (status under concurrency), as claimed: a /status request never
\* writes and so never meets a conflict, and when it answers 200 its count is
\* the length of the list of the version it read, a version of the file that
\* was current at or after its arrival; the count is a length some version
\* of the file had.
StatusUnderConcurrency ==
  \A r \in Statuses :
    /\ req[r].puts = 0 /\ req[r].put = "none"
    /\ req[r].pc = "StatusError" =>
         \/ FetchFailed(r)
         \/ ~JSONparse(req[r].content).ok
         \/ PropertyThrows(JSONparse(req[r].content).val)
    /\ req[r].res.status = 200 =>
         /\ \E i \in DOMAIN versions :
              /\ i >= req[r].arrivedAt
              /\ versions[i] = req[r].content
              /\ req[r].res.body.count = Num(Len(ListOf(versions[i])))
         /\ req[r].res.body.count \in {Num(Len(ListOf(versions[i]))) : i \in DOMAIN versions}

\* the text is valid JSON and the list of reviews taken from it is empty
Drained(text) == JSONparse(text).ok /\ ListOf(text) = <<>>

\* C18 (drained is final), as claimed: once a version of the file has an
\* empty list of reviews, every later version has one too, whatever writes
\* the draws that fetched earlier send; every /next-review request that
\* fetched that version or a later one answers done=true without writing,
\* and every /status request that answers 200 on it answers count 0.
DrainedIsFinal ==
  \A d \in DOMAIN versions :
    Drained(versions[d]) =>
      \A j \in d..Len(versions) :
        /\ Drained(versions[j])
        /\ \A r \in Draws :
             (Fetched(r) /\ req[r].content = versions[j]) =>
               req[r].res = NoReviewsLeft /\ req[r].puts = 0
        /\ \A r \in Statuses :
             (req[r].res.status = 200 /\ req[r].content = versions[j]) =>
               req[r].res.body.count = Num(0)
====
